---- MODULE Spec2Model ----
(***************************************************************************)
(* One hand of No-Limit Texas Hold'em as played by PokerGame               *)
(* (src/engine/poker_game.py), with the legal-action helper of             *)
(* src/bot_api.py.  Cards are opaque: the deck only contributes the number *)
(* of community cards dealt and the hand evaluator only contributes the    *)
(* set of showdown winners.  Chips are counted in units; the blinds are    *)
(* one and two units.                                                      *)
(***************************************************************************)
EXTENDS Integers, Sequences, FiniteSets, TLC

\* Largest stack a seat holds when the hand starts.
MaxChips == 5
\* Largest pot the specification SpecPot hands to the showdown, besides 100.
MaxPot == 7

\* __init__: self.player_ids, the seats in order
player_ids == <<0, 1, 2>>
\* Stacks a seat may hold when the hand starts: none, less than the big
\* blind, exactly the big blind, and the largest.
Stacks == {0, 1, 2, MaxChips}

Players == {player_ids[i] : i \in 1..Len(player_ids)}
NoPlayer == -1
NoIndex == -1

\* PlayerAction, plus one value that is none of its members.
PlayerAction == {"FOLD", "CHECK", "CALL", "RAISE", "ALL_IN"}
Actions == PlayerAction \cup {"OTHER"}
\* Amounts a bot may return with RAISE: everything up to one more than any
\* stack can cover.
Amounts == 0..(MaxChips + 1)

VARIABLES
    small_blind,           \* self.small_blind
    big_blind,             \* self.big_blind
    player_chips,          \* self.player_chips
    player_bets,           \* self.player_bets
    active_players,        \* self.active_players (list)
    folded_players,        \* self.folded_players (list)
    pot,                   \* self.pot
    current_bet,           \* self.current_bet
    dealer_button,         \* self.dealer_button
    round_name,            \* self.round_name
    players_acted,         \* self.players_acted (set)
    current_player_index,  \* self.current_player_index
    community_cards,       \* len(self.community_cards)
    winners,               \* play_hand's local `winners`
    pc,                    \* position in play_hand
    street,                \* which of play_hand's four street guards is next
    start_total,           \* history: pot + chips + bets when play_hand was called
    acted_true,            \* history: who was processed since current_bet last rose
    raiser,                \* history: who last raised current_bet in this round
    last                   \* history: the last action process_action applied

vars == <<small_blind, big_blind, player_chips, player_bets, active_players, folded_players, pot,
          current_bet, dealer_button, round_name, players_acted,
          current_player_index, community_cards, winners, pc, street,
          start_total, acted_true, raiser, last>>

----------------------------------------------------------------------------
\* Python helpers

Min(a, b) == IF a <= b THEN a ELSE b
Max(a, b) == IF a >= b THEN a ELSE b

\* x in list
Contains(seq, x) == \E i \in 1..Len(seq) : seq[i] = x
\* Mutant: the last element leaves the list, whichever it is (list.pop()).
Remove_last(seq, x) == SubSeq(seq, 1, Len(seq) - 1)
\* list.remove(x) for a list that holds x at most once
Remove(seq, x) == SelectSeq(seq, LAMBDA y : y # x)
\* list[i] with Python's 0-based index
At(seq, i) == seq[i + 1]
ToSet(seq) == {seq[i] : i \in 1..Len(seq)}

RECURSIVE SumOver(_, _)
SumOver(f, S) == IF S = {} THEN 0
                 ELSE LET x == CHOOSE y \in S : TRUE
                      IN f[x] + SumOver(f, S \ {x})

ZeroBets == [p \in Players |-> 0]

----------------------------------------------------------------------------
\* reset_hand: the seats that take part in the hand
reset_active(chips) == SelectSeq(player_ids, LAMBDA p : chips[p] > 0)

\* post_blinds: the active-list indexes of the two blind posters
small_blind_player_index(active) == (dealer_button + 1) % Len(active)
big_blind_player_index(active) == (dealer_button + 2) % Len(active)

\* Mutant: the small blind leaves the stack but never reaches the pot.
post_blinds_small_blind_lost(active, chips) ==
    IF Len(active) < 2
    THEN [chips |-> chips, bets |-> ZeroBets, pot |-> 0]
    ELSE LET sbp == At(active, small_blind_player_index(active))
             bbp == At(active, big_blind_player_index(active))
             sba == Min(small_blind, chips[sbp])
             bets1 == [ZeroBets EXCEPT ![sbp] = sba]
             chips1 == [chips EXCEPT ![sbp] = @ - sba]
             bba == Min(big_blind, chips1[bbp])
             bets2 == [bets1 EXCEPT ![bbp] = bba]
             chips2 == [chips1 EXCEPT ![bbp] = @ - bba]
         IN [chips |-> chips2, bets |-> bets2, pot |-> bba]

\* Mutant: the pot receives the configured blinds, whatever was posted.
post_blinds_configured_pot(active, chips) ==
    IF Len(active) < 2
    THEN [chips |-> chips, bets |-> ZeroBets, pot |-> 0]
    ELSE LET sbp == At(active, small_blind_player_index(active))
             bbp == At(active, big_blind_player_index(active))
             sba == Min(small_blind, chips[sbp])
             bets1 == [ZeroBets EXCEPT ![sbp] = sba]
             chips1 == [chips EXCEPT ![sbp] = @ - sba]
             bba == Min(big_blind, chips1[bbp])
             bets2 == [bets1 EXCEPT ![bbp] = bba]
             chips2 == [chips1 EXCEPT ![bbp] = @ - bba]
         IN [chips |-> chips2, bets |-> bets2, pot |-> small_blind + big_blind]

\* post_blinds, on the state reset_hand left (bets all zero, pot zero)
post_blinds(active, chips) ==
    IF Len(active) < 2
    THEN [chips |-> chips, bets |-> ZeroBets, pot |-> 0]
    ELSE LET sbp == At(active, small_blind_player_index(active))
             bbp == At(active, big_blind_player_index(active))
             sba == Min(small_blind, chips[sbp])
             bets1 == [ZeroBets EXCEPT ![sbp] = sba]
             chips1 == [chips EXCEPT ![sbp] = @ - sba]
             bba == Min(big_blind, chips1[bbp])
             bets2 == [bets1 EXCEPT ![bbp] = bba]
             chips2 == [chips1 EXCEPT ![bbp] = @ - bba]
         IN [chips |-> chips2, bets |-> bets2, pot |-> sba + bba]

\* get_current_player
get_current_player ==
    IF Len(active_players) = 0 THEN NoPlayer
    ELSE At(active_players, current_player_index % Len(active_players))

\* Mutant: a RAISE must leave the raiser at least one chip.
is_valid_action_strict(player, action, amount) ==
    IF ~Contains(active_players, player) \/ Contains(folded_players, player)
    THEN FALSE
    ELSE LET player_bet == player_bets[player]
             to_call == current_bet - player_bet
             available_chips == player_chips[player]
         IN CASE action = "FOLD" -> TRUE
              [] action = "CHECK" -> to_call = 0
              [] action = "CALL" -> to_call > 0
              [] action = "RAISE" ->
                    LET min_raise == current_bet + big_blind
                    IN amount >= min_raise /\ available_chips > amount - player_bet
              [] action = "ALL_IN" -> available_chips > 0
              [] OTHER -> FALSE

\* is_valid_action
is_valid_action(player, action, amount) ==
    IF ~Contains(active_players, player) \/ Contains(folded_players, player)
    THEN FALSE
    ELSE LET player_bet == player_bets[player]
             to_call == current_bet - player_bet
             available_chips == player_chips[player]
         IN CASE action = "FOLD" -> TRUE
              [] action = "CHECK" -> to_call = 0
              [] action = "CALL" -> to_call > 0
              [] action = "RAISE" ->
                    LET min_raise == current_bet + big_blind
                    IN amount >= min_raise /\ available_chips >= amount - player_bet
              [] action = "ALL_IN" -> available_chips > 0
              [] OTHER -> FALSE

\* Mutant: the invalid action is processed as given.
coerce_none(player, action, amount) == <<action, amount>>

\* process_action, lines 208-211: an invalid action becomes FOLD, 0
coerce(player, action, amount) ==
    IF ~is_valid_action(player, action, amount) THEN <<"FOLD", 0>>
    ELSE <<action, amount>>

\* Mutant: a call always moves the whole amount owed.
call_amount_uncapped(to_call, chips) == to_call

\* process_action, line 227
call_amount(to_call, chips) == Min(to_call, chips)

\* process_action: the fields it leaves behind, as a record
process_action(player, action, amount) ==
    LET eff == coerce(player, action, amount)
        act == eff[1]
        amt == eff[2]
        acted1 == players_acted \cup {player}
        player_bet == player_bets[player]
        to_call == current_bet - player_bet
        same == [chips |-> player_chips, bets |-> player_bets, pot |-> pot,
                 current_bet |-> current_bet, acted |-> acted1,
                 active |-> active_players, folded |-> folded_players]
    IN CASE act = "FOLD" ->
              [same EXCEPT !.folded = Append(folded_players, player),
                           !.active = Remove(active_players, player)]
         [] act = "CHECK" -> same
         [] act = "CALL" ->
              LET ca == call_amount(to_call, player_chips[player])
              IN [same EXCEPT !.bets[player] = @ + ca,
                              !.chips[player] = @ - ca,
                              !.pot = @ + ca]
         [] act = "RAISE" ->
              LET raise_amount == amt - player_bets[player]
              IN IF player_chips[player] <= raise_amount
                 THEN LET all == player_chips[player]
                          nb == player_bets[player] + all
                      IN [same EXCEPT !.bets[player] = nb,
                                      !.pot = @ + all,
                                      !.chips[player] = 0,
                                      !.current_bet = Max(current_bet, nb)]
                 ELSE LET nb == player_bets[player] + raise_amount
                      IN [same EXCEPT !.bets[player] = nb,
                                      !.chips[player] = @ - raise_amount,
                                      !.pot = @ + raise_amount,
                                      !.current_bet = nb,
                                      !.acted = {player}]
         [] act = "ALL_IN" ->
              LET all_in_amount == player_chips[player]
                  new_bet == player_bets[player] + all_in_amount
              IN IF new_bet > current_bet
                 THEN [same EXCEPT !.bets[player] = new_bet,
                                   !.chips[player] = 0,
                                   !.pot = @ + all_in_amount,
                                   !.current_bet = new_bet,
                                   !.acted = {player}]
                 ELSE [same EXCEPT !.bets[player] = new_bet,
                                   !.chips[player] = 0,
                                   !.pot = @ + all_in_amount]
         [] OTHER -> same

\* advance_to_next_player, on the active list process_action left
advance_to_next_player(active) ==
    IF Len(active) = 0 THEN current_player_index
    ELSE (current_player_index + 1) % Len(active)

\* Mutant: the round closes once enough participants have acted, whether or
\* not the bets are matched.
is_betting_round_complete_unmatched ==
    IF Len(active_players) <= 1 THEN TRUE
    ELSE Cardinality(players_acted) >= Len(active_players)

\* Mutant: a participant without chips must match the bet as well.
is_betting_round_complete_all_in_must_match ==
    IF Len(active_players) <= 1 THEN TRUE
    ELSE IF Cardinality(players_acted) < Len(active_players) THEN FALSE
    ELSE \A i \in 1..Len(active_players) :
            player_bets[active_players[i]] = current_bet

\* is_betting_round_complete
is_betting_round_complete ==
    IF Len(active_players) <= 1 THEN TRUE
    ELSE IF Cardinality(players_acted) < Len(active_players) THEN FALSE
    ELSE \A i \in 1..Len(active_players) :
            ~(player_chips[active_players[i]] > 0
              /\ player_bets[active_players[i]] # current_bet)

\* Mutant: RAISE is offered as soon as the stack covers the call.
get_legal_actions_raise_on_equal(player_name) ==
    IF ~Contains(active_players, player_name) \/ player_name # get_current_player
    THEN <<>>
    ELSE LET chips == player_chips[player_name]
             to_call == current_bet - player_bets[player_name]
             a1 == <<"FOLD">>
             a2 == IF to_call = 0 THEN Append(a1, "CHECK")
                   ELSE IF chips >= to_call THEN Append(a1, "CALL") ELSE a1
             a3 == IF chips >= to_call THEN Append(a2, "RAISE") ELSE a2
             a4 == IF chips > 0 THEN Append(a3, "ALL_IN") ELSE a3
         IN a4

\* get_legal_actions (bot_api.py), for the state get_game_state hands over
get_legal_actions(player_name) ==
    IF ~Contains(active_players, player_name) \/ player_name # get_current_player
    THEN <<>>
    ELSE LET chips == player_chips[player_name]
             player_bet == player_bets[player_name]
             to_call == current_bet - player_bet
             a1 == <<"FOLD">>
             a2 == IF to_call = 0 THEN Append(a1, "CHECK")
                   ELSE IF chips >= to_call THEN Append(a1, "CALL") ELSE a1
             a3 == IF chips > to_call THEN Append(a2, "RAISE") ELSE a2
             a4 == IF chips > 0 THEN Append(a3, "ALL_IN") ELSE a3
         IN a4

\* advance_to_next_round: the new round name
next_round_name(name) ==
    CASE name = "preflop" -> "flop"
      [] name = "flop" -> "turn"
      [] name = "turn" -> "river"
      [] name = "river" -> "showdown"
      [] OTHER -> name

\* advance_to_next_round: deal_flop, deal_turn, deal_river
cards_dealt(name) ==
    CASE name = "preflop" -> 3
      [] name = "flop" -> 1
      [] name = "turn" -> 1
      [] OTHER -> 0

\* Mutant: a street is played whenever anybody is left.
street_guard_nonempty == Len(active_players) > 0

\* play_hand, lines 47, 51, 56, 61: the guard of each street
street_guard == Len(active_players) > 1

\* HandEvaluator.get_winners: the candidates tied for the best hand
get_winners(candidates) ==
    IF candidates = {} THEN {{}} ELSE (SUBSET candidates) \ {{}}

\* determine_winners: the possible results
determine_winners ==
    IF Len(active_players) = 1 THEN {ToSet(active_players)}
    ELSE get_winners(ToSet(active_players))

\* Mutant: the split is rounded up.
winnings_rounded_up(p, n) == (p + n - 1) \div n

\* _distribute_pot, line 347
winnings_per_player(p, n) == p \div n

\* Mutant: the chips left over by the division go to the first winner.
distribute_pot_odd_chips(chips, p, w) ==
    IF w = {}
    THEN [chips |-> chips, pot |-> p]
    ELSE LET first == CHOOSE q \in w : \A r \in w : q <= r
         IN [chips |-> [q \in Players |->
                           IF q = first
                           THEN chips[q] + (p \div Cardinality(w)) + (p % Cardinality(w))
                           ELSE IF q \in w
                           THEN chips[q] + (p \div Cardinality(w))
                           ELSE chips[q]],
             pot |-> 0]

\* _distribute_pot: the chips and the pot it leaves
distribute_pot(chips, p, w) ==
    IF w = {}
    THEN [chips |-> chips, pot |-> p]
    ELSE [chips |-> [q \in Players |->
                        IF q \in w
                        THEN chips[q] + winnings_per_player(p, Cardinality(w))
                        ELSE chips[q]],
          pot |-> 0]

----------------------------------------------------------------------------
NoLast == [player |-> NoPlayer, action |-> "NONE", valid |-> FALSE]

Init ==
    /\ small_blind = 1
    /\ big_blind = 2
    /\ player_chips \in [Players -> Stacks]
    /\ \E p \in Players : player_chips[p] > 0
    /\ player_bets = ZeroBets
    /\ active_players = player_ids
    /\ folded_players = <<>>
    /\ pot = 0
    /\ current_bet = 0
    /\ dealer_button \in 0..(Len(player_ids) - 1)
    /\ round_name = "preflop"
    /\ players_acted = {}
    /\ current_player_index = NoIndex
    /\ community_cards = 0
    /\ winners = {}
    /\ pc = "idle"
    /\ street = 1
    /\ start_total = 0
    /\ acted_true = {}
    /\ raiser = NoPlayer
    /\ last = NoLast

\* play_hand, line 44: _start_hand (reset_hand, deal_hole_cards, post_blinds)
StartHand ==
    /\ pc = "idle"
    /\ LET active == reset_active(player_chips)
           b == post_blinds(active, player_chips)
       IN /\ active_players' = active
          /\ player_chips' = b.chips
          /\ player_bets' = b.bets
          /\ pot' = b.pot
    /\ folded_players' = <<>>
    /\ current_bet' = big_blind
    /\ round_name' = "preflop"
    /\ community_cards' = 0
    /\ pc' = "guard"
    /\ street' = 1
    /\ start_total' = pot + SumOver(player_chips, Players) + SumOver(player_bets, Players)
    /\ UNCHANGED <<small_blind, big_blind, dealer_button, players_acted,
                   current_player_index, winners, acted_true, raiser, last>>

\* play_hand, a street whose guard holds: advance_to_next_round (not before
\* the preflop round) and _start_betting_round
EnterStreet ==
    /\ pc = "guard"
    /\ street \in 1..4
    /\ street_guard
    /\ LET name == IF street > 1 THEN next_round_name(round_name) ELSE round_name
       IN /\ round_name' = name
          /\ community_cards' = IF street > 1 THEN community_cards + cards_dealt(round_name)
                                ELSE community_cards
          /\ IF name # "preflop"
             THEN current_bet' = 0 /\ player_bets' = ZeroBets
             ELSE UNCHANGED <<current_bet, player_bets>>
    /\ players_acted' = {}
    /\ current_player_index' = (dealer_button + 1) % Len(active_players)
    /\ pc' = "betting"
    /\ acted_true' = {}
    /\ raiser' = NoPlayer
    /\ UNCHANGED <<small_blind, big_blind, player_chips, active_players, folded_players,
                   pot, dealer_button, winners, street, start_total, last>>

\* The fields process_action leaves, and the history kept about it
Processed(player, action, amount) ==
    LET r == process_action(player, action, amount)
    IN /\ player_chips' = r.chips
       /\ player_bets' = r.bets
       /\ pot' = r.pot
       /\ current_bet' = r.current_bet
       /\ players_acted' = r.acted
       /\ active_players' = r.active
       /\ folded_players' = r.folded
       /\ acted_true' = IF r.current_bet > current_bet THEN {player}
                        ELSE acted_true \cup {player}
       /\ raiser' = IF r.current_bet > current_bet THEN player ELSE raiser
       /\ last' = [player |-> player,
                   action |-> coerce(player, action, amount)[1],
                   valid |-> is_valid_action(player, action, amount)]

\* _run_betting_round, one pass of the loop body: the current player's bot
\* returns (action, amount); process_action; advance_to_next_player
Decide(action, amount) ==
    /\ pc = "betting"
    /\ ~is_betting_round_complete
    /\ get_current_player # NoPlayer
    /\ Processed(get_current_player, action, amount)
    /\ current_player_index' = advance_to_next_player(active_players')
    /\ UNCHANGED <<small_blind, big_blind, dealer_button, round_name, community_cards,
                   winners, pc, street, start_total>>

\* _run_betting_round, the loop's exit.  The `break` of line 135 needs an empty
\* active list, for which is_betting_round_complete already holds.
CloseRound ==
    /\ pc = "betting"
    /\ is_betting_round_complete
    /\ pc' = "guard"
    /\ street' = street + 1
    /\ UNCHANGED <<small_blind, big_blind, player_chips, player_bets, active_players, folded_players, pot,
                   current_bet, dealer_button, round_name, players_acted,
                   current_player_index, community_cards, winners,
                   start_total, acted_true, raiser, last>>

\* play_hand, lines 66-72, reached when a street's guard fails (every later
\* guard then fails too) or after the river round: determine_winners,
\* _distribute_pot and the dealer button
Showdown ==
    /\ pc = "guard"
    /\ street > 4 \/ ~street_guard
    /\ \E w \in determine_winners :
         /\ winners' = w
         /\ player_chips' = distribute_pot(player_chips, pot, w).chips
         /\ pot' = distribute_pot(player_chips, pot, w).pot
    /\ dealer_button' = (dealer_button + 1) % Len(player_ids)
    /\ pc' = "done"
    /\ UNCHANGED <<small_blind, big_blind, player_bets, active_players, folded_players,
                   current_bet, round_name, players_acted, current_player_index,
                   community_cards, street, start_total, acted_true, raiser, last>>

\* The bot's answer: amount matters to the engine for RAISE alone.
BotDecides ==
    \E action \in Actions, amount \in Amounts :
        /\ action # "RAISE" => amount = 0
        /\ Decide(action, amount)

Next ==
    \/ StartHand
    \/ EnterStreet
    \/ BotDecides
    \/ CloseRound
    \/ Showdown

Spec == Init /\ [][Next]_vars

----------------------------------------------------------------------------
\* process_action called directly, between two passes of the betting loop,
\* for any seat.  The hand is followed no further after the call.
ApiCall(player, action, amount) ==
    /\ pc = "betting"
    /\ Processed(player, action, amount)
    /\ pc' = "called"
    /\ UNCHANGED <<small_blind, big_blind, dealer_button, round_name, community_cards,
                   winners, street, start_total, current_player_index>>

DriverCalls ==
    \E player \in Players, action \in Actions, amount \in Amounts :
        /\ action # "RAISE" => amount = 0
        /\ ApiCall(player, action, amount)

NextApi ==
    \/ StartHand
    \/ EnterStreet
    \/ BotDecides
    \/ CloseRound
    \/ Showdown
    \/ DriverCalls

SpecApi == Init /\ [][NextApi]_vars

----------------------------------------------------------------------------
\* The showdown alone, from drawn pots, stacks and survivors.
PotValues == (0..MaxPot) \cup {100}

InitPot ==
    /\ small_blind = 1
    /\ big_blind = 2
    /\ player_chips \in [Players -> {0, 3}]
    /\ player_bets = ZeroBets
    /\ \E S \in (SUBSET Players) \ {{}} :
         /\ active_players = SelectSeq(player_ids, LAMBDA p : p \in S)
         /\ folded_players = SelectSeq(player_ids, LAMBDA p : p \notin S)
    /\ pot \in PotValues
    /\ current_bet = 0
    /\ dealer_button = 0
    /\ round_name = "river"
    /\ players_acted = {}
    /\ current_player_index = 0
    /\ community_cards = 5
    /\ winners = {}
    /\ pc = "guard"
    /\ street = 5
    /\ start_total = pot + SumOver(player_chips, Players)
    /\ acted_true = {}
    /\ raiser = NoPlayer
    /\ last = NoLast

NextPot == Showdown

SpecPot == InitPot /\ [][NextPot]_vars

----------------------------------------------------------------------------
\* Notions the claims share

TotalChips == SumOver(player_chips, Players)
ActiveSet == ToSet(active_players)
\* The betting loop is about to exit: is_betting_round_complete answered True.
RoundJudgedComplete == pc = "betting" /\ is_betting_round_complete
\* The betting loop is about to ask the current player's bot.
AwaitingDecision == pc = "betting" /\ ~is_betting_round_complete
ToCall(p) == current_bet - player_bets[p]
\* An active participant who still owes chips and was not processed since
\* current_bet last rose.
Pending(p) ==
    /\ p \in ActiveSet
    /\ player_chips[p] > 0
    /\ player_bets[p] # current_bet
    /\ p \notin acted_true

----------------------------------------------------------------------------
\* C1 (as claimed): when play_hand has returned, the participants' chips sum
\* to pot + chips + bet_this_round as they were before the hand started.
C1_ChipConservation ==
    pc = "done" => TotalChips = start_total

\* C1 (amended): the step that distributes the pot leaves the chips summing
\* to the total before the hand minus the remainder of the pot divided by
\* the number of winners.
C1_ConservationUpToRemainder ==
    [][(pc = "guard" /\ pc' = "done") =>
         /\ winners' # {}
         /\ SumOver(player_chips', Players)
              = start_total - (pot % Cardinality(winners'))]_vars

\* C1 witness: a hand ended with several winners and a remainder was dropped.
C1_Witness ==
    /\ pc = "done"
    /\ Cardinality(winners) >= 2
    /\ TotalChips < start_total

----------------------------------------------------------------------------
\* C2: in every state of a hand every participant's chips are >= 0.
C2_NoNegativeStacks ==
    \A p \in Players : player_chips[p] >= 0

\* C2 witness: a participant called for less than the amount owed, with the
\* whole stack, and stands at zero chips.
C2_Witness ==
    /\ pc = "betting"
    /\ last.action = "CALL"
    /\ last.valid
    /\ player_chips[last.player] = 0
    /\ player_bets[last.player] < current_bet

----------------------------------------------------------------------------
\* C3: a decision of the current player that fails is_valid_action (the step
\* of the betting loop that records valid = FALSE) leaves the participant
\* folded (out of active, in folded) and leaves that participant's chips and
\* bet_this_round, the pot and current_bet as they were.
C3_IllegalActionCoercion ==
    [][(AwaitingDecision /\ pc' = "betting" /\ ~last'.valid) =>
         LET p == get_current_player
         IN /\ last'.player = p
            /\ ~Contains(active_players', p)
            /\ Contains(folded_players', p)
            /\ player_chips'[p] = player_chips[p]
            /\ player_bets'[p] = player_bets[p]
            /\ pot' = pot
            /\ current_bet' = current_bet]_vars

\* C3 witness: the last decision was invalid and its participant is folded.
C3_Witness ==
    /\ last.player # NoPlayer
    /\ ~last.valid
    /\ Contains(folded_players, last.player)
    /\ pot > 0

----------------------------------------------------------------------------
----------------------------------------------------------------------------
\* C5: once a RAISE or ALL_IN has increased current_bet, the round is not
\* judged complete before every other participant still active has been
\* processed again.  Stated for rounds that end with two or more active
\* participants, so that a round ended by folds alone is not counted.
C5_RaiseReseeding ==
    (RoundJudgedComplete /\ Len(active_players) >= 2 /\ raiser # NoPlayer)
        => \A p \in ActiveSet \ {raiser} : p \in acted_true

----------------------------------------------------------------------------
\* C6: with two or more active participants a round is judged complete only
\* if every active participant has itself acted since current_bet last rose
\* and every active participant with chips > 0 has matched current_bet.
C6_RoundCompletionRule ==
    (RoundJudgedComplete /\ Len(active_players) >= 2)
        => /\ \A p \in ActiveSet : p \in acted_true
           /\ \A p \in ActiveSet :
                 player_chips[p] > 0 => player_bets[p] = current_bet

----------------------------------------------------------------------------
\* C7: distributing the pot P to n >= 1 winners adds P div n to each winner's
\* chips, changes nobody else's chips, zeroes the pot, and removes exactly
\* P mod n chips from the game.
C7_PotDistribution ==
    [][(pc = "guard" /\ pc' = "done" /\ winners' # {}) =>
         LET n == Cardinality(winners')
         IN /\ \A p \in winners' : player_chips'[p] = player_chips[p] + (pot \div n)
            /\ \A p \in Players \ winners' : player_chips'[p] = player_chips[p]
            /\ pot' = 0
            /\ (pot + TotalChips) - (pot' + SumOver(player_chips', Players))
                 = pot % n]_vars

\* C7 witness: a pot of 100 went to three winners, 33 each, and one chip left
\* the game.
C7_Witness ==
    /\ pc = "done"
    /\ Cardinality(winners) = 3
    /\ pot = 0
    /\ start_total - TotalChips = 1
    /\ \A p \in winners : player_chips[p] \in {33, 36}

----------------------------------------------------------------------------
\* C8: once a single active participant is left in the hand, no bot is asked
\* again, no community card is dealt, no betting round is entered, and the
\* hand ends with that participant as the sole winner of the whole pot.
C8_FoldOutSettlement ==
    [][(pc \in {"guard", "betting"} /\ Len(active_players) = 1) =>
         LET sole == active_players[1]
         IN /\ active_players' = active_players
            /\ community_cards' = community_cards
            /\ last' = last
            /\ acted_true' = acted_true
            /\ pc' \in {"guard", "done"}
            /\ pc' = "done" =>
                 /\ winners' = {sole}
                 /\ player_chips' = [player_chips EXCEPT ![sole] = @ + pot]
                 /\ pot' = 0]_vars

\* C8 witness: everybody but one folded before the flop and the hand ended
\* with no community card and no chip lost.
C8_Witness ==
    /\ pc = "done"
    /\ Len(active_players) = 1
    /\ Len(folded_players) = 2
    /\ community_cards = 0
    /\ winners = ActiveSet
    /\ TotalChips = start_total
    /\ player_chips[active_players[1]] > MaxChips

----------------------------------------------------------------------------
\* C9: for the player about to be asked, get_legal_actions holds FOLD always,
\* CHECK iff to_call = 0, CALL iff to_call > 0 and chips >= to_call, RAISE iff
\* chips > to_call, ALL_IN iff chips > 0, and nothing else.
C9_LegalActions ==
    AwaitingDecision =>
        LET p == get_current_player
            L == get_legal_actions(p)
            S == ToSet(L)
            chips == player_chips[p]
        IN /\ S \subseteq PlayerAction
           /\ Len(L) = Cardinality(S)
           /\ "FOLD" \in S
           /\ ("CHECK" \in S) <=> (ToCall(p) = 0)
           /\ ("CALL" \in S) <=> (ToCall(p) > 0 /\ chips >= ToCall(p))
           /\ ("RAISE" \in S) <=> (chips > ToCall(p))
           /\ ("ALL_IN" \in S) <=> (chips > 0)

\* C9 witness: the player about to be asked owes more than the stack holds,
\* so CALL and RAISE are withheld while ALL_IN is offered.
C9_Witness ==
    /\ AwaitingDecision
    /\ ToCall(get_current_player) > player_chips[get_current_player]
    /\ player_chips[get_current_player] > 0
    /\ ToSet(get_legal_actions(get_current_player)) = {"FOLD", "ALL_IN"}

----------------------------------------------------------------------------
\* C10: an action handed to process_action for a participant who is not the
\* current player, or who has folded, moves no chips: everybody's chips and
\* bet_this_round, the pot and current_bet stay as they were.  (The claim
\* also has the participant end up folded; that half fails as well.)
C10_StructuralCoercion ==
    [][\A q \in Players :
         (pc = "betting" /\ pc' = "called" /\ last'.player = q
            /\ (q # get_current_player \/ Contains(folded_players, q)))
         => /\ player_chips' = player_chips
            /\ player_bets' = player_bets
            /\ pot' = pot
            /\ current_bet' = current_bet]_vars

----------------------------------------------------------------------------
TotalBets == SumOver(player_bets, Players)
\* The hand is between blind posting and pot distribution.
InHand == pc \in {"guard", "betting"}

\* C11 (as claimed): after every transition within a hand, pot + sum of chips
\* + sum of bet_this_round equals the sum of chips at the start of the hand.
C11_ConservationWithBets ==
    InHand => pot + TotalChips + TotalBets = start_total

\* C11 (amended): after every transition within a hand, pot + sum of chips
\* equals the sum of chips at the start of the hand; the bets are in the pot.
C11_ConservationOfPotAndChips ==
    InHand => pot + TotalChips = start_total

\* C11 witness: a street after the flop with chips wagered in it, where the
\* sum of the bets is smaller than the pot.
C11_Witness ==
    /\ pc = "betting"
    /\ round_name = "turn"
    /\ TotalBets > 0
    /\ TotalBets < pot

----------------------------------------------------------------------------
\* Seat order: the seats are the positions of player_ids, and dealer_button
\* is one of them.
NumSeats == Len(player_ids)
SeatAfter(seat, k) == (seat + k) % NumSeats
\* The nearest seat of S strictly after seat, going round the table (S is
\* not empty; the seat itself is reached last).
NextActiveAfter(seat, S) ==
    LET k == CHOOSE k \in 1..NumSeats :
                 /\ SeatAfter(seat, k) \in S
                 /\ \A j \in 1..(k - 1) : SeatAfter(seat, j) \notin S
    IN SeatAfter(seat, k)

\* C12: when a hand starts with at least two active participants, the small
\* and the big blind are posted by two distinct participants, the first and
\* the second active participant seated after the dealer; each posts
\* min(blind, own chips), moved from chips into bet_this_round and pot; with
\* fewer than two active participants no chips move.  Seats without chips
\* are excluded from the active ones.
C12_BlindPosting ==
    [][(pc = "idle" /\ pc' = "guard") =>
        LET S == ToSet(active_players')
        IN IF Cardinality(S) >= 2
           THEN LET sb == NextActiveAfter(dealer_button, S)
                    bb == NextActiveAfter(sb, S)
                    sba == Min(small_blind, player_chips[sb])
                    bba == Min(big_blind, player_chips[bb])
                IN /\ sb # bb
                   /\ player_chips' = [player_chips EXCEPT ![sb] = @ - sba,
                                                           ![bb] = @ - bba]
                   /\ player_bets' = [ZeroBets EXCEPT ![sb] = sba,
                                                      ![bb] = bba]
                   /\ pot' = sba + bba
           ELSE /\ player_chips' = player_chips
                /\ player_bets' = ZeroBets
                /\ pot' = 0]_vars

----------------------------------------------------------------------------
\* play_hand is sequential code and every bot answers: a step that can be
\* taken is taken.
SpecLive == Init /\ [][Next]_vars /\ WF_vars(Next)

\* C13: every betting round eventually completes and the hand reaches the
\* distribution of the pot; no hand asks for decisions for ever.
C13_Termination ==
    /\ <>(pc = "done")
    /\ (pc = "betting") ~> (pc = "guard")

\* C13 witness: a hand that was played to the river, where the last decision
\* of a participant moved chips, has distributed its pot.
C13_Witness ==
    /\ pc = "done"
    /\ round_name = "river"
    /\ last.action \in {"CALL", "RAISE", "ALL_IN"}
    /\ last.valid

----------------------------------------------------------------------------
\* The participant who follows p in the order of the active list, going round.
FollowerInActive(p) ==
    LET i == CHOOSE i \in 1..Len(active_players) : active_players[i] = p
    IN active_players[(i % Len(active_players)) + 1]

\* C14: when the participant whose turn it is folds and the betting round is
\* not complete afterwards, the next participant asked is the active one who
\* immediately followed the folder in the active order.
C14_TurnOrderAcrossFold ==
    [][(/\ AwaitingDecision
        /\ pc' = "betting"
        /\ last'.action = "FOLD"
        /\ ~is_betting_round_complete')
       => get_current_player' = FollowerInActive(get_current_player)]_vars

----------------------------------------------------------------------------
\* The preflop scenario: three participants with 1000 chips each, blinds
\* 10/20, the dealer button on the first seat.  The bots raise to 40 or to
\* their whole 1000 when they raise.
InitScenario ==
    /\ small_blind = 10
    /\ big_blind = 20
    /\ player_chips = [p \in Players |-> 1000]
    /\ player_bets = ZeroBets
    /\ active_players = player_ids
    /\ folded_players = <<>>
    /\ pot = 0
    /\ current_bet = 0
    /\ dealer_button = 0
    /\ round_name = "preflop"
    /\ players_acted = {}
    /\ current_player_index = NoIndex
    /\ community_cards = 0
    /\ winners = {}
    /\ pc = "idle"
    /\ street = 1
    /\ start_total = 0
    /\ acted_true = {}
    /\ raiser = NoPlayer
    /\ last = NoLast

ScenarioAmounts == {0, 40, 1000}

BotDecidesScenario ==
    \E action \in Actions, amount \in ScenarioAmounts :
        /\ action # "RAISE" => amount = 0
        /\ Decide(action, amount)

NextScenario ==
    \/ StartHand
    \/ EnterStreet
    \/ BotDecidesScenario
    \/ CloseRound
    \/ Showdown

SpecScenario == InitScenario /\ [][NextScenario]_vars

\* Every seat has put in the big blind and nobody has raised or folded.
PreflopLimped ==
    /\ pc = "betting"
    /\ round_name = "preflop"
    /\ Len(active_players) = NumSeats
    /\ acted_true = Players
    /\ raiser = NoPlayer
    /\ \A p \in Players : player_bets[p] = 20

\* C15: in the scenario P1 posts 10 and P2 posts 20 and current_bet is 20;
\* the preflop decisions are asked of P0, P1, P2 in this order: the call of
\* P0 makes the pot 50, the call of P1 makes it 60, and the round closes
\* right after the check of P2, with pot 60 and every bet at 20.
C15_PreflopScenario ==
    /\ (pc = "guard" /\ street = 1)
         => /\ player_bets = [ZeroBets EXCEPT ![1] = 10, ![2] = 20]
            /\ current_bet = 20
    /\ (pc = "betting" /\ round_name = "preflop" /\ last = NoLast)
         => get_current_player = 0
    /\ (pc = "betting" /\ round_name = "preflop" /\ Cardinality(acted_true) = 1
          /\ last.action = "CALL" /\ last.valid)
         => (last.player = 0 /\ pot = 50)
    /\ PreflopLimped
         => /\ last.player = 2
            /\ last.action = "CHECK"
            /\ pot = 60
            /\ is_betting_round_complete

----------------------------------------------------------------------------
\* C16: a valid RAISE whose increment is the whole stack of the raiser is
\* applied as an all-in: the chips become 0, bet_this_round and pot grow by
\* the former chips, current_bet becomes the new bet when that is higher, and
\* players_acted is cleared and reseeded to hold the raiser alone.
C16_RaiseOfWholeStack ==
    [][(/\ AwaitingDecision
        /\ pc' = "betting"
        /\ last'.action = "RAISE"
        /\ player_chips'[last'.player] = 0)
       => LET p == last'.player
          IN /\ p = get_current_player
             /\ player_bets'[p] = player_bets[p] + player_chips[p]
             /\ pot' = pot + player_chips[p]
             /\ current_bet' = Max(current_bet, player_bets'[p])
             /\ players_acted' = {p}]_vars

----------------------------------------------------------------------------
\* C17: at the start of each betting round the first participant asked is
\* the nearest still-active participant seated after the dealer in seat
\* order, whoever has folded or was left out for having no chips.
C17_FirstToAct ==
    [][(pc = "guard" /\ pc' = "betting")
       => get_current_player' =
              NextActiveAfter(dealer_button, ToSet(active_players'))]_vars

----------------------------------------------------------------------------
\* The highest bet_this_round of all participants.
HighestBet == CHOOSE b \in {player_bets[p] : p \in Players} :
                  \A q \in Players : player_bets[q] <= b

\* C18: in every state of a hand from blind posting on (a short big blind
\* and fewer than two active participants included) and after every
\* processed action, current_bet equals the highest bet_this_round.
C18_CurrentBetIsHighestBet ==
    InHand => current_bet = HighestBet

----------------------------------------------------------------------------
\* C19: processing an action of participant p, valid or coerced, leaves the
\* chips, the bet_this_round and the active/folded membership of every other
\* participant unchanged; CHECK and FOLD leave the chips and the bet of p,
\* the pot and current_bet unchanged as well.
C19_FrameOfAction ==
    [][(AwaitingDecision /\ pc' = "betting")
       => LET p == get_current_player
          IN /\ last'.player = p
             /\ \A q \in Players \ {p} :
                   /\ player_chips'[q] = player_chips[q]
                   /\ player_bets'[q] = player_bets[q]
                   /\ Contains(active_players', q) <=> Contains(active_players, q)
                   /\ Contains(folded_players', q) <=> Contains(folded_players, q)
             /\ last'.action \in {"CHECK", "FOLD"}
                   => /\ player_chips'[p] = player_chips[p]
                      /\ player_bets'[p] = player_bets[p]
                      /\ pot' = pot
                      /\ current_bet' = current_bet]_vars

\* C19 witness: a participant was made to fold by a refused action while
\* two others, both with chips and a bet, stay in the hand.
C19_Witness ==
    /\ pc = "betting"
    /\ last.action = "FOLD"
    /\ ~last.valid
    /\ Len(active_players) = 2
    /\ \A i \in 1..Len(active_players) :
          /\ player_chips[active_players[i]] > 0
          /\ player_bets[active_players[i]] > 0

----------------------------------------------------------------------------
\* C20: for the participant whose turn it is, with min_bet = current_bet +
\* big_blind and max_bet = chips + bet_this_round as handed to the bot, a
\* RAISE to a total amount is accepted (not made a FOLD) if and only if
\* min_bet <= amount <= max_bet, and after an accepted RAISE the bet_this_round
\* of the participant equals that amount.
C20_RaiseRange ==
    [][(AwaitingDecision /\ pc' = "betting")
       => \A amount \in Amounts :
             Decide("RAISE", amount)
             => LET p == get_current_player
                    min_bet == current_bet + big_blind
                    max_bet == player_chips[p] + player_bets[p]
                IN IF min_bet <= amount /\ amount <= max_bet
                   THEN /\ last'.action = "RAISE"
                        /\ ~Contains(folded_players', p)
                        /\ player_bets'[p] = amount
                   ELSE /\ last'.action = "FOLD"
                        /\ Contains(folded_players', p)
                        /\ player_bets'[p] = player_bets[p]]_vars

\* C20 witness: a RAISE was accepted that left the raiser chips, so that a
\* higher amount was in the range too.
C20_Witness ==
    /\ pc = "betting"
    /\ last.action = "RAISE"
    /\ last.valid
    /\ player_chips[last.player] > 0
    /\ player_bets[last.player] = current_bet

----------------------------------------------------------------------------
\* C21: from blind posting until the distribution of the pot, pot + sum of
\* chips stays equal to the sum of chips at the start of the hand across
\* every processed action and every street change, and within one street the
\* pot grows by exactly the sum of the increases of bet_this_round (blind
\* posting and each action); a street change leaves pot and chips alone.
C21_PotTracksBets ==
    [][/\ (pc' \in {"guard", "betting"})
            => pot' + SumOver(player_chips', Players) = start_total'
       /\ (pc \in {"idle", "betting"} /\ pc' \in {"guard", "betting"})
            => pot' - pot = SumOver(player_bets', Players) - TotalBets
       /\ (pc = "guard" /\ pc' = "betting")
            => (pot' = pot /\ player_chips' = player_chips)]_vars

\* C21 witness: on the river, after the bets were reset three times, a raise
\* has just added chips to a pot that holds the earlier streets' bets.
C21_Witness ==
    /\ pc = "betting"
    /\ round_name = "river"
    /\ last.action = "RAISE"
    /\ last.valid
    /\ TotalBets > 0
    /\ pot > TotalBets
    /\ pot + TotalChips = start_total

----------------------------------------------------------------------------
\* RAISE is among the legal actions offered to the participant asked.
RaiseOffered ==
    /\ AwaitingDecision
    /\ Contains(get_legal_actions(get_current_player), "RAISE")

\* C22: whenever RAISE is among the legal actions offered to the current
\* player, the offered range is not empty (min_bet <= max_bet) and the engine
\* accepts at least one raise amount, every amount of the range in fact, so
\* that a bot raising inside the range is never folded.
C22_OfferedRaiseIsPossible ==
    RaiseOffered
        => LET p == get_current_player
               min_bet == current_bet + big_blind
               max_bet == player_chips[p] + player_bets[p]
           IN /\ min_bet <= max_bet
              /\ \E amount \in Amounts : is_valid_action(p, "RAISE", amount)
              /\ \A amount \in min_bet..max_bet :
                    is_valid_action(p, "RAISE", amount)

----------------------------------------------------------------------------
\* The participants who are all-in: active, with no chips left.
AllIn == {p \in ActiveSet : player_chips[p] = 0}

\* C23: a participant who is all-in is never asked for a decision again in
\* that hand and is never moved to the folded ones: it stays in contention
\* until the pot is distributed.
C23_AllInStaysIn ==
    [][(AwaitingDecision /\ pc' = "betting")
       => /\ get_current_player \notin AllIn
          /\ \A q \in AllIn : /\ Contains(active_players', q)
                              /\ ~Contains(folded_players', q)]_vars

====
